---------------------------- MODULE Spec2Model ----------------------------
(***************************************************************************)
(* Model of the key resolution engine of package cfg (layered store,       *)
(* alias table, dotted-path descent, Get/IsSet/InConfig).                   *)
(*                                                                         *)
(* Representation.  A key string is represented by the sequence of its     *)
(* keyDelm-separated segments: "a.b" is <<"a", "b">>.  strings.Split(key,   *)
(* keyDelm) is then the sequence itself, strings.Contains(key, keyDelm) is *)
(* Len(key) > 1, and a path []string is a sequence of segments.            *)
(* A Go map[string]interface{} layer is a total function over Keys whose   *)
(* value Absent means "no entry"; a stored nil interface is Nil.           *)
(***************************************************************************)
EXTENDS Integers, Sequences, FiniteSets, TLC

VARIABLES c, last, link, ops

vars == <<c, last, link, ops>>

(* Number of mutating calls explored from the empty store. *)
MaxOps == 4

-----------------------------------------------------------------------------
(* Key universe *)

(* strings.ToLower on one segment *)
LowerSeg(s) ==
    CASE s = "A" -> "a"
      [] s = "B" -> "b"
      [] OTHER   -> s

(* strings.ToLower on a key *)
ToLower(key) == [i \in DOMAIN key |-> LowerSeg(key[i])]

Keys == { <<"a">>, <<"A">>, <<"b">>, <<"a", "b">>, <<"a", "B">>,
          <<"a", "c">>, <<"a", "b", "c">> }

(* marker: "no such map entry" in the alias table (never a key: a key has  *)
(* at least one segment)                                                   *)
NoKey == << >>

-----------------------------------------------------------------------------
(* Values: interface{} *)

Nil    == [kind |-> "nil"]
Absent == [kind |-> "absent"]
(* outcome of a lookup whose recursion never returns *)
Diverge == [kind |-> "diverge"]

IntV(n)   == [kind |-> "int", n |-> n]
Int64V(n) == [kind |-> "int64", n |-> n]
MapV(m)   == [kind |-> "map", m |-> m]

M1 == MapV([b |-> IntV(5)])
M2 == MapV([b |-> MapV([c |-> IntV(5)])])
M3 == MapV([B |-> Int64V(7)])

(* delete(m, k) and m[k] = v on a layer *)
Del(m, k)    == [m EXCEPT ![k] = Absent]
Put(m, k, v) == [m EXCEPT ![k] = v]
Has(m, k)    == m[k] # Absent

EmptyLayer == [k \in Keys |-> Absent]

(* New() *)
New ==
    [ config         |-> EmptyLayer,
      defaults       |-> EmptyLayer,
      overrides      |-> EmptyLayer,
      aliases        |-> [k \in Keys |-> NoKey],
      typeByDefValue |-> FALSE ]

-----------------------------------------------------------------------------
(* Alias resolution *)

RECURSIVE realKeyFrom(_, _, _)
realKeyFrom(cc, key, seen) ==
    IF key \in seen THEN NoKey
    ELSE IF cc.aliases[key] # NoKey
         THEN realKeyFrom(cc, cc.aliases[key], seen \cup {key})
         ELSE key

(* Config.realKey; NoKey when the recursion revisits a key, i.e. never     *)
(* returns                                                                 *)
realKey(cc, key) == realKeyFrom(cc, key, {})

-----------------------------------------------------------------------------
(* Path resolver *)

(* searchMap giving up when segments remain at a non-mapping value *)
RECURSIVE searchMapStrict(_, _)
searchMapStrict(s, p) ==
    IF Len(p) = 0 THEN MapV(s)
    ELSE IF p[1] \in DOMAIN s
         THEN LET next == s[p[1]] IN
              IF next.kind = "map" THEN searchMapStrict(next.m, Tail(p))
              ELSE IF Len(p) = 1 THEN next ELSE Nil
         ELSE Nil

(* searchMap returning the mapping reached so far when a segment is       *)
(* missing                                                                 *)
RECURSIVE searchMapLenient(_, _)
searchMapLenient(s, p) ==
    IF Len(p) = 0 THEN MapV(s)
    ELSE IF p[1] \in DOMAIN s
         THEN LET next == s[p[1]] IN
              IF next.kind = "map" THEN searchMapLenient(next.m, Tail(p))
              ELSE next
         ELSE MapV(s)

RECURSIVE searchMap(_, _)
searchMap(s, p) ==
    IF Len(p) = 0 THEN MapV(s)
    ELSE IF p[1] \in DOMAIN s
         THEN LET next == s[p[1]] IN
              IF next.kind = "map" THEN searchMap(next.m, Tail(p))
              ELSE next
         ELSE Nil

-----------------------------------------------------------------------------
(* Key resolution engine *)

RECURSIVE findFrom(_, _, _)
findFrom(cc, key0, seen) ==
    IF key0 \in seen THEN Diverge
    ELSE
    LET key == realKey(cc, key0) IN
    IF key = NoKey THEN Diverge
    ELSE IF Has(cc.overrides, key) THEN cc.overrides[key]
    ELSE IF Has(cc.config, key) THEN cc.config[key]
    ELSE LET source == IF Len(key) > 1
                       THEN findFrom(cc, <<key[1]>>, seen \cup {key0})
                       ELSE Nil
         IN
         IF source = Diverge THEN Diverge
         ELSE IF Len(key) > 1 /\ source.kind = "map"
              THEN searchMap(source.m, Tail(key))
         ELSE IF Has(cc.defaults, key) THEN cc.defaults[key]
         ELSE Nil

(* find with the defaults layer consulted first *)
findDefaultsFirst(cc, key) ==
    LET rk == realKey(cc, key) IN
    IF rk # NoKey /\ Has(cc.defaults, rk) THEN cc.defaults[rk]
    ELSE findFrom(cc, key, {})

(* find that never consults the defaults layer *)
findNoDefaults(cc, key) ==
    findFrom([cc EXCEPT !.defaults = EmptyLayer], key, {})

(* Config.find; Diverge when find calls itself again with an argument it   *)
(* is already evaluating (the store does not change during a lookup, so    *)
(* the recursion then never returns)                                       *)
find(cc, key) == findFrom(cc, key, {})

(* cast.ToInt as Get applies it *)
ToInt(val) ==
    IF val.kind \in {"int", "int64"} THEN IntV(val.n) ELSE IntV(0)

(* the type switch at the end of Get *)
Coerce(valType, val) ==
    IF valType.kind \in {"int", "int64"} THEN ToInt(val) ELSE val

(* Config.Get *)
Get(cc, key) ==
    LET p        == key
        lcaseKey == ToLower(key)
        val0     == find(cc, lcaseKey)
        source   == IF val0 = Nil THEN find(cc, <<p[1]>>) ELSE Nil
        val      == IF val0 = Nil /\ source \notin {Nil, Diverge}
                       /\ source.kind = "map"
                    THEN searchMap(source.m, Tail(p))
                    ELSE val0
    IN
    IF val0 = Diverge \/ source = Diverge THEN Diverge
    ELSE IF val = Nil THEN Nil
    ELSE LET valType == IF ~cc.typeByDefValue THEN val
                        ELSE IF Has(cc.defaults, lcaseKey)
                             THEN cc.defaults[lcaseKey]
                             ELSE val
         IN Coerce(valType, val)

(* IsSet looking only for an entry under the canonical key *)
IsSetExactEntry(cc, key) ==
    LET rk == realKey(cc, ToLower(key)) IN
    Has(cc.overrides, rk) \/ Has(cc.config, rk) \/ Has(cc.defaults, rk)

(* Config.IsSet (it returns only if Get does: see Returns) *)
IsSet(cc, key) == Get(cc, key) # Nil

(* the lookup of key returns *)
Returns(cc, key) == Get(cc, key) # Diverge

(* Config.InConfig: the key is alias-resolved but not lower-cased *)
InConfig(cc, key) ==
    LET rk == realKey(cc, key) IN rk # NoKey /\ Has(cc.config, rk)

-----------------------------------------------------------------------------
(* Mutating operations, as functions from Config to Config *)

(* Set storing under the lower-cased key without resolving aliases *)
SetNoAlias(cc, key, value) ==
    [cc EXCEPT !.overrides = Put(@, ToLower(key), value)]

(* Set storing under the key as written, not lower-cased *)
SetNoLower(cc, key, value) ==
    LET rk == realKey(cc, key) IN
    [cc EXCEPT !.overrides = Put(@, rk, value)]

(* Config.SetDefault *)
SetDefault(cc, key, value) ==
    LET rk == realKey(cc, ToLower(key)) IN
    [cc EXCEPT !.defaults = Put(@, rk, value)]

(* Config.Set *)
Set(cc, key, value) ==
    LET rk == realKey(cc, ToLower(key)) IN
    [cc EXCEPT !.overrides = Put(@, rk, value)]

(* the three "move the value to the new key" blocks of registerAlias *)
Migrate(m, alias, key) ==
    IF Has(m, alias) THEN Put(Del(m, alias), key, m[alias]) ELSE m

(* registerAlias without the realKey half of the circularity test *)
registerAliasNoChainTest(cc, alias0, key) ==
    LET alias == ToLower(alias0) IN
    IF alias # key /\ cc.aliases[alias] = NoKey
    THEN [cc EXCEPT !.config    = Migrate(@, alias, key),
                    !.defaults  = Migrate(@, alias, key),
                    !.overrides = Migrate(@, alias, key),
                    !.aliases   = [@ EXCEPT ![alias] = key]]
    ELSE cc

(* registerAlias overwriting an alias that is already registered *)
registerAliasOverwrite(cc, alias0, key) ==
    LET alias == ToLower(alias0) IN
    IF alias # key /\ alias # realKey(cc, key)
    THEN [cc EXCEPT !.config    = Migrate(@, alias, key),
                    !.defaults  = Migrate(@, alias, key),
                    !.overrides = Migrate(@, alias, key),
                    !.aliases   = [@ EXCEPT ![alias] = key]]
    ELSE cc

(* Config.registerAlias (key already lower-cased by the caller) *)
registerAlias(cc, alias0, key) ==
    LET alias == ToLower(alias0) IN
    IF alias # key /\ alias # realKey(cc, key)
    THEN IF cc.aliases[alias] = NoKey
         THEN [cc EXCEPT !.config    = Migrate(@, alias, key),
                         !.defaults  = Migrate(@, alias, key),
                         !.overrides = Migrate(@, alias, key),
                         !.aliases   = [@ EXCEPT ![alias] = key]]
         ELSE cc
    ELSE cc

(* Config.RegisterAlias *)
RegisterAlias(cc, alias, key) == registerAlias(cc, alias, ToLower(key))

(* Parsed source files: top-level key -> value, keys as written in the    *)
(* file                                                                    *)
File(ks, f) == [keys |-> ks, at |-> f]

Files ==
    { File({}, EmptyLayer),
      File({<<"a">>}, Put(EmptyLayer, <<"a">>, IntV(5))),
      File({<<"A">>}, Put(EmptyLayer, <<"A">>, M1)),
      File({<<"a">>}, Put(EmptyLayer, <<"a">>, M2)),
      File({<<"a">>}, Put(EmptyLayer, <<"a">>, M3)),
      File({<<"a">>, <<"b">>},
           Put(Put(EmptyLayer, <<"a">>, M1), <<"b">>, Int64V(7))),
      File({<<"a", "b">>}, Put(EmptyLayer, <<"a", "b">>, Int64V(7))) }

(* The parser and the key normalisation of a load are outside the source  *)
(* files at hand; they follow the store's contract: every loaded key is   *)
(* lower-cased and passed through realKey before storage.                  *)

(* the canonical key a loaded key is stored under *)
LoadedKey(cc, key) == realKey(cc, ToLower(key))

(* the config layer built from a parsed file when its entries are stored  *)
(* in the order: first, then the others (two loaded keys may share a      *)
(* canonical key, and a Go map is ranged over in no fixed order; the      *)
(* files above hold at most two keys, so first decides the order)         *)
RECURSIVE LoadInto(_, _, _, _)
LoadInto(cc, m, file, todo) ==
    IF todo = {} THEN m
    ELSE LET k == CHOOSE x \in todo : TRUE IN
         LoadInto(cc, Put(m, LoadedKey(cc, k), file.at[k]), file, todo \ {k})

Loaded(cc, file, first) ==
    LoadInto(cc, Put(EmptyLayer, LoadedKey(cc, first), file.at[first]),
             file, file.keys \ {first})

(* Config.ReadInConfig with a readable, supported file: the config layer  *)
(* is replaced wholesale                                                   *)
ReadInConfig(cc, file, first) ==
    [cc EXCEPT !.config = IF file.keys = {} THEN EmptyLayer
                          ELSE Loaded(cc, file, first)]

-----------------------------------------------------------------------------
(* State machine *)

Call(op, k, k2, v) == [op |-> op, k |-> k, k2 |-> k2, v |-> v]

NoLink == [new |-> NoKey, old |-> NoKey, v |-> Absent]

Init ==
    /\ c = New
    /\ last = Call("New", NoKey, NoKey, Absent)
    /\ link = NoLink
    /\ ops = 0

(* link remembers the last accepted alias registration and the value of   *)
(* the most recent Set made since then through a name that resolves to    *)
(* the same canonical key                                                  *)
DoSet(key, value) ==
    /\ ops < MaxOps
    /\ c' = Set(c, key, value)
    /\ last' = Call("Set", key, NoKey, value)
    /\ link' = IF link # NoLink
                  /\ realKey(c, ToLower(key)) = realKey(c, link.new)
               THEN [link EXCEPT !.v = value]
               ELSE link
    /\ ops' = ops + 1

DoSetDefault(key, value) ==
    /\ ops < MaxOps
    /\ c' = SetDefault(c, key, value)
    /\ last' = Call("SetDefault", key, NoKey, value)
    /\ UNCHANGED link
    /\ ops' = ops + 1

DoRegisterAlias(alias, key) ==
    /\ ops < MaxOps
    /\ c' = RegisterAlias(c, alias, key)
    /\ last' = Call("RegisterAlias", key, alias, Absent)
    /\ link' = IF c'.aliases # c.aliases
               THEN [new |-> ToLower(alias), old |-> ToLower(key), v |-> Absent]
               ELSE link
    /\ ops' = ops + 1

DoReadInConfig(file, first) ==
    /\ ops < MaxOps
    /\ c' = ReadInConfig(c, file, first)
    /\ last' = Call("ReadInConfig", NoKey, NoKey, Absent)
    /\ UNCHANGED link
    /\ ops' = ops + 1

(* The calls explored *)
SetKeys          == { <<"a">>, <<"A">>, <<"b">>, <<"a", "b">> }
SetValues        == { Nil, Int64V(7), M1 }
SetDefaultValues == { Nil, IntV(5), M2 }
AliasCalls ==
    { << <<"a">>, <<"b">> >>,      << <<"b">>, <<"a">> >>,
      << <<"a">>, <<"a">> >>,      << <<"A">>, <<"b">> >>,
      << <<"a">>, <<"a", "b">> >>, << <<"b">>, <<"a", "b">> >>,
      << <<"a", "b">>, <<"b">> >> }

Next ==
    \/ \E key \in SetKeys, value \in SetValues : DoSet(key, value)
    \/ \E key \in SetKeys, value \in SetDefaultValues : DoSetDefault(key, value)
    \/ \E call \in AliasCalls : DoRegisterAlias(call[1], call[2])
    \/ \E file \in Files :
          \E first \in (IF file.keys = {} THEN {NoKey} ELSE file.keys) :
             DoReadInConfig(file, first)

Spec == Init /\ [][Next]_vars

(* The store driven by Set, SetDefault and RegisterAlias only: the config  *)
(* layer is never loaded                                                   *)
NextNoLoad ==
    \/ \E key \in SetKeys, value \in SetValues : DoSet(key, value)
    \/ \E key \in SetKeys, value \in SetDefaultValues : DoSetDefault(key, value)
    \/ \E call \in AliasCalls : DoRegisterAlias(call[1], call[2])

SpecNoLoad == Init /\ [][NextNoLoad]_vars

-----------------------------------------------------------------------------
(* Vocabulary of the properties *)

(* the canonical key of k: lower-cased, alias-resolved *)
Canon(cc, k) == realKey(cc, ToLower(k))

(* an entry that exists and is not nil *)
NonNil(v) == v \notin {Absent, Nil}

(* a stored value as Get hands it out (integers in native width) *)
Coerced(v) == Coerce(v, v)

-----------------------------------------------------------------------------
(* C1: precedence law.  For every key whose canonical key has a non-nil    *)
(* entry in overrides, Get returns the overrides value whatever config and *)
(* defaults hold under that key (in particular when all three hold it);    *)
(* with no overrides entry and a non-nil config entry, Get returns the     *)
(* config value whatever defaults holds.                                   *)
PrecedenceLaw ==
    \A k \in Keys :
        LET ck == Canon(c, k) IN
        /\ NonNil(c.overrides[ck])
              => Get(c, k) = Coerced(c.overrides[ck])
        /\ ~Has(c.overrides, ck) /\ NonNil(c.config[ck])
              => Get(c, k) = Coerced(c.config[ck])

(* an aliased, upper-case key whose canonical key holds three different    *)
(* non-nil values, one per layer                                           *)
PrecedenceWitness ==
    \E k \in Keys :
        LET ck == Canon(c, k) IN
        /\ ck # ToLower(k) /\ k # ToLower(k)
        /\ NonNil(c.overrides[ck]) /\ NonNil(c.config[ck]) /\ NonNil(c.defaults[ck])
        /\ Coerced(c.overrides[ck]) # Coerced(c.config[ck])
        /\ Coerced(c.overrides[ck]) # Coerced(c.defaults[ck])
        /\ Coerced(c.config[ck]) # Coerced(c.defaults[ck])
        /\ Get(c, k) = Coerced(c.overrides[ck])

-----------------------------------------------------------------------------
(* the key reached from k after n alias hops, staying put at a key that is *)
(* no alias                                                                *)
RECURSIVE Walk(_, _, _)
Walk(cc, k, n) ==
    IF n = 0 \/ cc.aliases[k] = NoKey THEN k
    ELSE Walk(cc, cc.aliases[k], n - 1)

(* C3: the alias table is acyclic.  From every key, following alias        *)
(* entries for as many hops as there are keys ends on a key that is no     *)
(* alias; realKey returns, and returns exactly that key.                   *)
AliasTableAcyclic ==
    \A k \in Keys :
        LET end == Walk(c, k, Cardinality(Keys)) IN
        /\ c.aliases[end] = NoKey
        /\ realKey(c, k) = end

(* the last call was a registration that would have closed a cycle (its    *)
(* key already resolves to its alias through a chain of two aliases) and   *)
(* it left the table as it was                                             *)
AliasCycleWitness ==
    /\ last.op = "RegisterAlias"
    /\ ToLower(last.k2) # ToLower(last.k)
    /\ c.aliases[ToLower(last.k)] # NoKey
    /\ c.aliases[c.aliases[ToLower(last.k)]] # NoKey
    /\ realKey(c, ToLower(last.k)) = ToLower(last.k2)
    /\ c.aliases[ToLower(last.k2)] = NoKey

-----------------------------------------------------------------------------
(* the registration RegisterAlias(alias, key) is not circular in cc *)
NotCircular(cc, alias, key) ==
    /\ ToLower(alias) # ToLower(key)
    /\ ToLower(alias) # realKey(cc, ToLower(key))

(* C4 as stated: every registration that is not circular inserts           *)
(* alias -> key, and afterwards both names resolve to the same key.        *)
RegisterAliasInsertsUnlessCircular ==
    [][ last'.op = "RegisterAlias" /\ NotCircular(c, last'.k2, last'.k)
          => /\ c'.aliases[ToLower(last'.k2)] = ToLower(last'.k)
             /\ realKey(c', ToLower(last'.k2)) = realKey(c', ToLower(last'.k))
      ]_vars

(* C4, amended: a registration that is not circular and whose alias is not *)
(* yet in the alias table inserts alias -> key, and afterwards both names  *)
(* resolve to the same key; every other registration (circular, or of an   *)
(* alias already registered) leaves the whole store unchanged.             *)
RegisterAliasInsertsUnlessCircularOrKnown ==
    [][ last'.op = "RegisterAlias"
          => IF NotCircular(c, last'.k2, last'.k)
                /\ c.aliases[ToLower(last'.k2)] = NoKey
             THEN /\ c'.aliases[ToLower(last'.k2)] = ToLower(last'.k)
                  /\ realKey(c', ToLower(last'.k2)) = realKey(c', ToLower(last'.k))
                  /\ \A k \in Keys \ {ToLower(last'.k2)} :
                        c'.aliases[k] = c.aliases[k]
             ELSE c' = c
      ]_vars

(* the last call registered, for a key that is itself an alias, an alias   *)
(* that was not yet in the table                                           *)
RegisterAliasWitness ==
    /\ last.op = "RegisterAlias"
    /\ c.aliases[ToLower(last.k2)] = ToLower(last.k)
    /\ c.aliases[ToLower(last.k)] # NoKey
    /\ realKey(c, ToLower(last.k2)) = realKey(c, ToLower(last.k))

-----------------------------------------------------------------------------
(* C2 as stated: after an accepted RegisterAlias(new, old), Get(new) and   *)
(* Get(old) both return the value of the most recent Set made through      *)
(* either name.                                                            *)
AliasTransparency ==
    link.v # Absent
      => /\ Get(c, link.new) = Coerced(link.v)
         /\ Get(c, link.old) = Coerced(link.v)

(* C2, amended: after an accepted RegisterAlias(new, old), Get(new) and    *)
(* Get(old), in any letter case, both return the value of the most recent  *)
(* Set made through either name, provided that value is not nil.           *)
AliasTransparencyNonNil ==
    NonNil(link.v)
      => \A k \in Keys :
            ToLower(k) \in {link.new, link.old} => Get(c, k) = Coerced(link.v)

(* the last call was a Set of a non-nil value through the alias, written   *)
(* in upper case, and the value reads back through both names              *)
AliasTransparencyWitness ==
    /\ last.op = "Set" /\ ToLower(last.k) = link.new /\ last.k # link.new
    /\ NonNil(last.v) /\ link.v = last.v
    /\ c.aliases[link.new] = link.old
    /\ c.overrides[link.old] = last.v
    /\ Get(c, link.new) = Coerced(last.v)
    /\ Get(c, link.old) = Coerced(last.v)

-----------------------------------------------------------------------------
(* k has an entry in the defaults layer only *)
OnlyInDefaults(cc, k) ==
    LET ck == Canon(cc, k) IN
    /\ ~Has(cc.overrides, ck) /\ ~Has(cc.config, ck) /\ Has(cc.defaults, ck)

(* C5 as stated: a key with an entry in the defaults layer only reads as   *)
(* its default and is not in the config, whatever else is stored.          *)
DefaultsOnlyKeys ==
    \A k \in Keys :
        OnlyInDefaults(c, k)
          => /\ Get(c, k) = Coerced(c.defaults[Canon(c, k)])
             /\ ~InConfig(c, k)

(* the first segment of the canonical key of k resolves, and not to a      *)
(* mapping (vacuously so for an undotted key)                              *)
NoMappingPrefix(cc, k) ==
    LET ck == Canon(cc, k) IN
    Len(ck) > 1 => find(cc, <<ck[1]>>).kind \notin {"map", "diverge"}

(* C5, amended: a key with a non-nil entry in the defaults layer only,     *)
(* whose canonical key is undotted or has a first segment that does not    *)
(* resolve to a nested mapping, reads as its default and is not in the     *)
(* config.                                                                 *)
DefaultsOnlyKeysNoMappingPrefix ==
    \A k \in Keys :
        OnlyInDefaults(c, k) /\ NonNil(c.defaults[Canon(c, k)])
        /\ NoMappingPrefix(c, k)
          => /\ Get(c, k) = Coerced(c.defaults[Canon(c, k)])
             /\ ~InConfig(c, k)

(* a dotted, aliased key read from defaults while its first segment holds  *)
(* a scalar in a higher layer and the config layer is not empty            *)
DefaultsOnlyWitness ==
    \E k \in Keys :
        LET ck == Canon(c, k) IN
        /\ OnlyInDefaults(c, k) /\ NonNil(c.defaults[ck])
        /\ Len(ck) > 1 /\ ck # ToLower(k)
        /\ NonNil(find(c, <<ck[1]>>)) /\ NoMappingPrefix(c, k)
        /\ \E x \in Keys : Has(c.config, x)
        /\ Get(c, k) = Coerced(c.defaults[ck])
        /\ ~InConfig(c, k)

-----------------------------------------------------------------------------
(* Reference semantics of a path in a nested mapping *)

(* the value standing at p[1..i] in the mapping value root: root itself    *)
(* for i = 0, Absent when a segment is missing or the path runs through a  *)
(* value that is no mapping                                                *)
RECURSIVE At(_, _, _)
At(root, p, i) ==
    IF i = 0 THEN root
    ELSE LET prev == At(root, p, i - 1) IN
         IF prev.kind = "map" /\ p[i] \in DOMAIN prev.m
         THEN prev.m[p[i]]
         ELSE Absent

(* the path p stops at position i < Len(p) on a value that is no mapping *)
StopsEarlyAt(root, p, i) ==
    /\ i \in 1 .. (Len(p) - 1)
    /\ NonNil(At(root, p, i)) /\ At(root, p, i).kind # "map"

(* a segment of p is missing from the mapping reached so far *)
SegmentMissing(root, p) ==
    \E i \in 1 .. Len(p) :
        /\ At(root, p, i - 1).kind = "map"
        /\ p[i] \notin DOMAIN At(root, p, i - 1).m

(* what the first segment of the canonical key of k resolves to *)
Prefix(cc, k) == find(cc, <<Canon(cc, k)[1]>>)

(* k is dotted and its canonical key has no entry in overrides or config *)
DottedNoExact(cc, k) ==
    LET ck == Canon(cc, k) IN
    /\ Len(ck) > 1 /\ ~Has(cc.overrides, ck) /\ ~Has(cc.config, ck)

(* the canonical key of k has no entry in any layer *)
NoEntry(cc, k) ==
    LET ck == Canon(cc, k) IN
    /\ ~Has(cc.overrides, ck) /\ ~Has(cc.config, ck) /\ ~Has(cc.defaults, ck)

(* k is written in lower case and is no alias *)
Plain(cc, k) == Canon(cc, k) = k

(* where the path p ends in the mapping value root: Nil when a segment is  *)
(* missing, the value it stops on early, else the value standing at p      *)
Outcome(root, p) ==
    IF SegmentMissing(root, p) THEN Nil
    ELSE IF \E i \in 1 .. Len(p) : StopsEarlyAt(root, p, i)
         THEN At(root, p, CHOOSE i \in 1 .. Len(p) : StopsEarlyAt(root, p, i))
         ELSE At(root, p, Len(p))

-----------------------------------------------------------------------------
(* the descent of k stops inside the nested mapping of its first segment   *)
(* on a value that is no mapping, with segments left                       *)
StopsInsideMapping(cc, k) ==
    /\ DottedNoExact(cc, k) /\ Prefix(cc, k).kind = "map"
    /\ \E i \in 1 .. Len(Canon(cc, k)) :
          StopsEarlyAt(Prefix(cc, k), Tail(Canon(cc, k)), i)

(* the first segment of k itself resolves to a value that is no mapping,   *)
(* and k (lower-case, no alias) has no entry of its own                    *)
FirstSegmentScalar(cc, k) ==
    /\ Plain(cc, k) /\ Len(k) > 1 /\ NoEntry(cc, k)
    /\ NonNil(Prefix(cc, k)) /\ Prefix(cc, k).kind \notin {"map", "diverge"}

(* C6 as stated: when resolving a dotted key reaches a value that is no    *)
(* mapping before all segments are consumed, Get returns that value, also  *)
(* when it is the first segment that resolves to it.                       *)
NonMappingShortCircuit ==
    \A k \in Keys :
        /\ StopsInsideMapping(c, k)
              => Get(c, k) = Coerced(Outcome(Prefix(c, k), Tail(Canon(c, k))))
        /\ FirstSegmentScalar(c, k)
              => Get(c, k) = Coerced(Prefix(c, k))

(* C6, amended: the short-circuit happens inside a nested mapping only.    *)
(* When the first segment resolves to a nested mapping and the descent     *)
(* reaches a value that is no mapping before all segments are consumed,    *)
(* Get returns that value; when the first segment itself resolves to a     *)
(* scalar and the key has no entry of its own, Get is absent.              *)
NonMappingShortCircuitInsideMapping ==
    \A k \in Keys :
        /\ StopsInsideMapping(c, k)
              => Get(c, k) = Coerced(Outcome(Prefix(c, k), Tail(Canon(c, k))))
        /\ FirstSegmentScalar(c, k)
              => Get(c, k) = Nil

(* a three-segment key whose first segment is an alias of the key that    *)
(* holds {b: 5}: the descent stops on the scalar under its second segment  *)
ShortCircuitWitness ==
    \E k \in Keys :
        /\ StopsInsideMapping(c, k)
        /\ Len(Canon(c, k)) = 3
        /\ c.aliases[<<k[1]>>] # NoKey
        /\ StopsEarlyAt(Prefix(c, k), Tail(Canon(c, k)), 1)
        /\ Get(c, k) = IntV(5)

-----------------------------------------------------------------------------
Layers(cc) == {cc.overrides, cc.config, cc.defaults}

(* what Get(k) is, given that the first segment of k leads to the mapping  *)
(* value root: the value the remaining segments reach, absent when one is  *)
(* missing (for a lower-case key that is no alias)                         *)
DescendsFrom(cc, k, root) ==
    LET R == Outcome(root, Tail(Canon(cc, k))) IN
    /\ NonNil(R) => Get(cc, k) = Coerced(R)
    /\ SegmentMissing(root, Tail(Canon(cc, k))) /\ Plain(cc, k)
          => Get(cc, k) = Nil

(* C7 as stated: for a nested mapping stored under the top-level key in    *)
(* any layer and no exact entry for the dotted key in overrides or config, *)
(* Get follows the segments through that mapping.                          *)
DottedDescent ==
    \A k \in Keys : \A layer \in Layers(c) :
        LET top == realKey(c, <<Canon(c, k)[1]>>) IN
        DottedNoExact(c, k) /\ layer[top].kind = "map"
          => DescendsFrom(c, k, layer[top])

(* C7, amended: for a dotted key with no exact entry in overrides or       *)
(* config whose first segment resolves, by layer precedence, to a nested   *)
(* mapping, Get follows the lower-cased segments through that mapping: it  *)
(* returns the value reached (a sub-mapping if the path ends on one) and,  *)
(* for a lower-case key that is no alias, is absent as soon as a segment   *)
(* is missing from the mapping reached so far.                             *)
DottedDescentFromEffectivePrefix ==
    \A k \in Keys :
        DottedNoExact(c, k) /\ Prefix(c, k).kind = "map"
          => DescendsFrom(c, k, Prefix(c, k))

(* the defaults layer holds {b: {c: 5}} under "a", nothing shadows it, and *)
(* it holds 5 under "a.b": a.b.c reads 5, a.b reads the sub-mapping, a.c   *)
(* is absent                                                               *)
DottedDescentWitness ==
    /\ c.defaults[<<"a">>] = M2 /\ Prefix(c, <<"a", "b">>) = M2
    /\ DottedNoExact(c, <<"a", "b", "c">>) /\ DottedNoExact(c, <<"a", "b">>)
    /\ c.defaults[<<"a", "b">>] = IntV(5)
    /\ Get(c, <<"a", "b", "c">>) = IntV(5)
    /\ Get(c, <<"a", "b">>) = MapV([c |-> IntV(5)])
    /\ Get(c, <<"a", "c">>) = Nil

-----------------------------------------------------------------------------
(* the last call stored the non-nil scalar last.v *)
StoredScalar(op) ==
    /\ last.op = op /\ NonNil(last.v) /\ last.v.kind # "map"

(* every spelling of the key of the last call reads as last.v *)
ReadsBackInAnyCase ==
    \A k \in Keys :
        ToLower(k) = ToLower(last.k)
          => Get(c, k) \in {Coerced(last.v), Diverge}

(* C8 as stated: after Set(k, v), or SetDefault(k, v) with no entry for k   *)
(* in a higher layer, with v a non-nil scalar, Get returns v for every     *)
(* spelling of k that differs in letter case only (lookups that do not     *)
(* return are left aside).                                                 *)
CaseInsensitiveSetGet ==
    /\ StoredScalar("Set") => ReadsBackInAnyCase
    /\ StoredScalar("SetDefault")
        /\ ~Has(c.overrides, Canon(c, last.k)) /\ ~Has(c.config, Canon(c, last.k))
          => ReadsBackInAnyCase

(* C8, amended: after Set(k, v) with v a non-nil scalar, Get returns v for *)
(* every spelling of k that differs in letter case only; after             *)
(* SetDefault(k, v) the same holds when no higher layer has an entry for k *)
(* and the canonical key of k is undotted or has a first segment that does *)
(* not resolve to a nested mapping.                                        *)
CaseInsensitiveSetGetNoMappingPrefix ==
    /\ StoredScalar("Set")
          => \A k \in Keys :
                ToLower(k) = ToLower(last.k) => Get(c, k) = Coerced(last.v)
    /\ StoredScalar("SetDefault")
        /\ ~Has(c.overrides, Canon(c, last.k)) /\ ~Has(c.config, Canon(c, last.k))
        /\ NoMappingPrefix(c, last.k)
          => \A k \in Keys :
                ToLower(k) = ToLower(last.k) => Get(c, k) = Coerced(last.v)

(* Set("A", 7) on a store whose defaults and config hold other values      *)
(* under "a": both spellings read 7                                        *)
CaseInsensitiveWitness ==
    /\ StoredScalar("Set") /\ last.k = <<"A">>
    /\ NonNil(c.defaults[<<"a">>]) /\ NonNil(c.config[<<"a">>])
    /\ Get(c, <<"a">>) = IntV(7) /\ Get(c, <<"A">>) = IntV(7)

-----------------------------------------------------------------------------
(* C9: InConfig(k) is true exactly when the config layer has an entry      *)
(* under the canonical (lower-cased, alias-resolved) key of k, so it is    *)
(* the same for spellings that differ in letter case only.                 *)
InConfigNormalizesKey ==
    \A k \in Keys : InConfig(c, k) = Has(c.config, Canon(c, k))

-----------------------------------------------------------------------------
(* key K lies in a nested mapping that one of its proper prefixes resolves *)
(* to                                                                      *)
ContainedBelowPrefix(cc, K) ==
    \E n \in 1 .. (Len(K) - 1) :
        LET root == find(cc, SubSeq(K, 1, n))
            rest == SubSeq(K, n + 1, Len(K))
        IN root.kind = "map" /\ At(root, rest, Len(rest)) # Absent

(* C10 as stated: IsSet(k) is false for every key with no entry in any     *)
(* layer that is not contained in a nested mapping reached through a       *)
(* prefix of k, as written, lower-cased or alias-resolved (lookups that do *)
(* not return are left aside).                                             *)
IsSetFalseWhenNotContained ==
    \A k \in Keys :
        ( NoEntry(c, k)
          /\ (\A K \in {k, ToLower(k), Canon(c, k)} : ~ContainedBelowPrefix(c, K)) )
          => ~Returns(c, k) \/ ~IsSet(c, k)

(* the path p finds no value below what the first segment resolved to:     *)
(* that is no mapping, or a segment of p is missing from the mapping       *)
(* reached so far                                                          *)
FindsNothing(first, p) ==
    \/ first.kind \notin {"map", "diverge"}
    \/ first.kind = "map" /\ SegmentMissing(first, p)

(* C10, amended: IsSet(k) is false for every key with no entry in any      *)
(* layer whose path, lower-cased and alias-resolved and also as written,   *)
(* is undotted, or has a first segment that resolves to no nested mapping, *)
(* or misses a segment of the mapping reached so far; when the path runs   *)
(* past a scalar inside the mapping, IsSet(k) is true.                     *)
IsSetFalseWhenSegmentMissing ==
    \A k \in Keys :
        /\ NoEntry(c, k)
           /\ (Len(Canon(c, k)) = 1
                 \/ FindsNothing(Prefix(c, k), Tail(Canon(c, k))))
           /\ (Len(k) > 1 => FindsNothing(find(c, <<k[1]>>), Tail(k)))
             => Returns(c, k) /\ ~IsSet(c, k)
        /\ NoEntry(c, k) /\ StopsInsideMapping(c, k)
             => Returns(c, k) /\ IsSet(c, k)

(* {b: 5} stored in the config layer under the key the first segment "a"  *)
(* is an alias of: a.c misses a segment and is not set, a.b.c runs past    *)
(* the scalar and is set                                                   *)
IsSetWitness ==
    /\ c.aliases[<<"a">>] # NoKey
    /\ c.config[realKey(c, <<"a">>)] = M1 /\ Prefix(c, <<"a", "c">>) = M1
    /\ NoEntry(c, <<"a", "c">>) /\ NoEntry(c, <<"a", "b", "c">>)
    /\ SegmentMissing(M1, <<"c">>)
    /\ Returns(c, <<"a", "c">>) /\ ~IsSet(c, <<"a", "c">>)
    /\ StopsInsideMapping(c, <<"a", "b", "c">>)
    /\ IsSet(c, <<"a", "b", "c">>)

-----------------------------------------------------------------------------
(* C11: in every state reached by Set, SetDefault and RegisterAlias,       *)
(* Get(k) returns for every key k (and so do find and realKey on the keys  *)
(* Get hands them), also after an alias was registered for a dotted key    *)
(* whose first segment is that alias.                                      *)
LookupTerminates ==
    \A k \in Keys :
        /\ realKey(c, ToLower(k)) # NoKey
        /\ find(c, ToLower(k)) # Diverge
        /\ Returns(c, k)

-----------------------------------------------------------------------------
(* the keys that have an entry in some layer *)
StoredKeys(cc) ==
    { k \in Keys :
        Has(cc.overrides, k) \/ Has(cc.config, k) \/ Has(cc.defaults, k) }

(* C12: after any sequence of Set, SetDefault and RegisterAlias calls on   *)
(* an initially empty store, every key present in overrides, config or     *)
(* defaults is lower-case and is no key of the alias table                 *)
(* (realKey(key) = key).                                                   *)
StoredKeysCanonical ==
    \A k \in StoredKeys(c) :
        /\ ToLower(k) = k
        /\ c.aliases[k] = NoKey
        /\ realKey(c, k) = k

-----------------------------------------------------------------------------
(* the last call was an accepted registration *)
Accepted(cc, cc2) == cc2.aliases # cc.aliases

(* the entry a layer held under the alias is gone from there and stands    *)
(* under the canonical key of the aliased key                              *)
MovedToCanonical(before, after, cc2, alias, key) ==
    Has(before, alias)
      => /\ ~Has(after, alias)
         /\ realKey(cc2, key) # NoKey
         /\ after[realKey(cc2, key)] = before[alias]

(* C13: whenever RegisterAlias(alias, key) is accepted while a layer holds *)
(* a value under alias, afterwards that layer has no entry under alias and *)
(* holds the value under realKey(key), also when key is itself an alias;   *)
(* a non-nil value migrated in overrides is what Get(alias) and Get(key)   *)
(* return.                                                                 *)
AliasMigration ==
    [][ last'.op = "RegisterAlias" /\ Accepted(c, c')
          => LET alias == ToLower(last'.k2)
                 key   == ToLower(last'.k)
             IN
             /\ MovedToCanonical(c.overrides, c'.overrides, c', alias, key)
             /\ MovedToCanonical(c.config, c'.config, c', alias, key)
             /\ MovedToCanonical(c.defaults, c'.defaults, c', alias, key)
             /\ NonNil(c.overrides[alias])
                   => /\ Get(c', alias) = Coerced(c.overrides[alias])
                      /\ Get(c', key) = Coerced(c.overrides[alias])
      ]_vars

=============================================================================
